---- MODULE Spec2Model ----
(***************************************************************************)
(* FragRouter (src/frag.js): hash-based routing.  The module state of the  *)
(* factory closure (history, historyPosition, notFoundHandler,             *)
(* frag.isRouting), the host's location fragment and its queue of          *)
(* hashchange events, and one action per public operation.                 *)
(*                                                                         *)
(* A fragment is a sequence of tokens, each a name or the separator "/";   *)
(* a segment is a name or the empty string.                                *)
(***************************************************************************)
EXTENDS Integers, Sequences, FiniteSets, TLC

VARIABLES
  history,          \* var history = []                       (frag.js:165)
  historyPosition,  \* var historyPosition = 0                (frag.js:166)
  notFoundHandler,  \* the function bound to notFoundHandler  (frag.js:176)
  isRouting,        \* frag.isRouting                         (frag.js:183)
  onhashchange,     \* TRUE once window.onhashchange is set   (frag.js:370)
  handlers,         \* the table the installed listener closes over
  hash,             \* window.location.hash.slice(1)
  pending,          \* hashchange events queued by the host
  op,               \* the operation that ran last
  err,              \* what it threw ("none" if it returned)
  requests,         \* the Request objects of the last dispatch cycle
  calls,            \* the handler invocations of the last dispatch cycle
  nav,              \* the host navigation the last operation issued
  kept              \* the history array of a Request the application kept

vars == <<history, historyPosition, notFoundHandler, isRouting, onhashchange,
          handlers, hash, pending, op, err, requests, calls, nav, kept>>

----------------------------------------------------------------------------
(* Bounds *)

\* dispatch cycles start only while history holds fewer entries than this
MaxHistory == 2

\* hashchange events the host may hold queued
MaxPending == 1

----------------------------------------------------------------------------
(* JavaScript values *)

Undefined == "<undefined>"
UndefinedArr == <<Undefined>>
NoThis == 0

EmptyTable == [k \in {} |-> 0]

\* a value as the router inspects it: typeof, truthiness, the function's
\* identity, the object's own properties
Fn(f) == [kind |-> "function", truthy |-> TRUE, fn |-> f, sub |-> EmptyTable]
Obj(t) == [kind |-> "object", truthy |-> TRUE, fn |-> "", sub |-> t]
StrVal == [kind |-> "string", truthy |-> TRUE, fn |-> "", sub |-> EmptyTable]
NumVal == [kind |-> "number", truthy |-> TRUE, fn |-> "", sub |-> EmptyTable]
TrueVal == [kind |-> "boolean", truthy |-> TRUE, fn |-> "", sub |-> EmptyTable]
FalseVal == [kind |-> "boolean", truthy |-> FALSE, fn |-> "", sub |-> EmptyTable]
NullVal == [kind |-> "object", truthy |-> FALSE, fn |-> "", sub |-> EmptyTable]
UndefVal == [kind |-> "undefined", truthy |-> FALSE, fn |-> "", sub |-> EmptyTable]

\* v[key]: an own property of an object, undefined otherwise.  The lookup
\* also sees what Object.prototype defines ("constructor", "toString", ...);
\* no segment of Fragments is such a name, so own properties decide it.
GetProp(v, key) ==
  IF v.kind = "object" /\ v.truthy /\ key \in DOMAIN v.sub
    THEN v.sub[key]
    ELSE UndefVal

\* delete v[key]
DeleteProp(v, key) ==
  [v EXCEPT !.sub = [k \in (DOMAIN v.sub) \ {key} |-> v.sub[k]]]

\* an argument a handler receives: a string or an array of strings
Str(s) == [type |-> "string", v |-> <<s>>]
Arr(a) == [type |-> "array", v |-> a]

----------------------------------------------------------------------------
(* Inputs *)

\* the README's multi-level table
ReadmeRoutes ==
  Obj(("_" :> Fn("page")) @@ ("pages" :> Fn("page")) @@ ("about" :> Fn("about"))
      @@ ("clients" :> Obj(("_" :> Fn("clientsDefault"))
                           @@ ("list" :> Fn("clientsList"))
                           @@ ("modify" :> Fn("clientsModify"))))
      @@ ("404" :> Fn("missing")))

\* no root handlers, a second level of nesting, entries that are neither a
\* function nor a table, a `404` that is not a function
BareRoutes ==
  Obj(("pages" :> StrVal)
      @@ ("clients" :> Obj(("list" :> Fn("clientsList"))
                           @@ ("foo" :> NumVal)
                           @@ ("modify" :> Obj(("_" :> StrVal)
                                               @@ ("all" :> Fn("clientsModify"))))
                           @@ ("404" :> Fn("clientsMissing"))))
      @@ ("about" :> Fn("about"))
      @@ ("missing" :> NullVal)
      @@ ("404" :> Obj("list" :> Fn("missingList"))))

\* what start() is called with: a table, or a falsy value (no table)
StartInputs == {ReadmeRoutes, BareRoutes, FalseVal}

\* what setNotFoundHandler() is called with
NotFoundInputs == {Fn("custom"), StrVal, UndefVal}

\* the fragments the host is sent to
Fragments ==
  { <<>>,
    <<"pages", "/", "45", "/", "foo">>,
    <<"missing">>,
    <<"clients">>,
    <<"clients", "/", "modify">>,
    <<"clients", "/", "modify", "/", "all">>,
    <<"clients", "/", "foo">>,
    <<"404", "/", "list">> }

\* the second argument of go(): an array of parameters, or anything else
ArrayArg(a) == [array |-> TRUE, v |-> a, truthy |-> TRUE]
OmittedArg == [array |-> FALSE, v |-> <<>>, truthy |-> FALSE]
TrueArg == [array |-> FALSE, v |-> <<>>, truthy |-> TRUE]

\* what go() is called with: go("pages"), go("pages", ["45", "foo"]),
\* go("pages", true)
GoInputs ==
  { [location |-> <<"pages">>, params |-> OmittedArg, hide |-> FALSE],
    [location |-> <<"pages">>, params |-> ArrayArg(<<"45", "foo">>), hide |-> FALSE],
    [location |-> <<"pages">>, params |-> TrueArg, hide |-> FALSE] }

----------------------------------------------------------------------------
(* extractPath *)

\* String.prototype.split('/')
RECURSIVE Split(_)
Split(h) ==
  IF h = <<>> THEN <<"">>
  ELSE IF Head(h) = "/" THEN <<"">> \o Split(Tail(h))
  ELSE IF Len(h) = 1 THEN <<Head(h)>>
  ELSE <<Head(h)>> \o Split(Tail(Tail(h)))

\* extractPath(hash): hash = hash || window.location.hash.slice(1)
extractPath(arg) ==
  LET h == IF arg = UndefinedArr \/ arg = <<>> THEN hash ELSE arg
  IN Split(h)

----------------------------------------------------------------------------
(* Request *)

\* mutant: the live array itself, not a copy
SliceAliased(live) == [alias |-> TRUE, val |-> live]

\* history.slice(0): a new array with the elements of the live one.  An
\* array is its elements, or (alias) the live history array itself.
Slice(live) == [alias |-> FALSE, val |-> live]

\* new Request(path) while the live history is `live`: route and parameters
\* are not passed; history is a copy of the live history
Request(path, live) ==
  [path |-> path, route |-> Undefined, parameters |-> UndefinedArr,
   params |-> UndefinedArr, hash |-> hash, history |-> Slice(live)]

\* the methods Request.prototype defines
RequestPrototype == {"back", "forwared", "go"}

\* the identifiers the factory closure declares
ModuleScope ==
  {"frag", "history", "historyPosition", "notFoundHandler", "Request",
   "extractPath", "handleRoute"}

----------------------------------------------------------------------------
(* handleRoute *)

\* The state one dispatch cycle works on: the live history and cursor, the
\* Request objects it constructed, the handler invocations it made and the
\* error it threw.
Cycle ==
  [history |-> history, historyPosition |-> historyPosition,
   requests |-> <<>>, calls |-> <<>>, err |-> "none"]

\* f.call(thisArg, ...args) / f.apply(thisArg, args) / f(...args)
Invoke(st, f, thisArg, args) ==
  [st EXCEPT !.calls = Append(@, [fn |-> f, this |-> thisArg, args |-> args])]

\* mutant: the cursor set to history.length
RecordCursorPastEnd(path, st) ==
  LET h == Append(st.history, hash)
  IN [st EXCEPT !.history = h,
                !.historyPosition = Len(h),
                !.requests = Append(@, Request(path, h))]

\* mutant: the entry written over the one at the cursor
RecordOverwrites(path, st) ==
  LET h == IF st.history = <<>>
             THEN <<hash>>
             ELSE [st.history EXCEPT ![st.historyPosition + 1] = hash]
  IN [st EXCEPT !.history = h,
                !.historyPosition = Len(h) - 1,
                !.requests = Append(@, Request(path, h))]

\* history.push(window.location.hash.slice(1));
\* historyPosition = history.length - 1;  var request = new Request(path)
Record(path, st) ==
  LET h == Append(st.history, hash)
  IN [st EXCEPT !.history = h,
                !.historyPosition = Len(h) - 1,
                !.requests = Append(@, Request(path, h))]

\* !path.length || path[0] === ''
IsRootPath(path) == path = <<>> \/ path[1] = ""

\* request.route = path.shift(1); request.params = path.  Every Request of
\* the cycle holds the one array extractPath returned, so the shift shows in
\* the path (and params) of each of them.
Shift(st) ==
  LET n == Len(st.requests)
      path == st.requests[n].path
  IN [st EXCEPT !.requests =
        [i \in 1..n |->
           [st.requests[i] EXCEPT
              !.path = Tail(path),
              !.route = IF i = n THEN Head(path) ELSE @,
              !.params = Tail(path)]]]

\* mutant: the array handed over as one argument (call for apply)
ApplyArgsAsArray(params) == <<Arr(params)>>

\* the arguments of handlers[request.route].apply(request, request.params)
ApplyArgs(params) == [i \in 1..Len(params) |-> Str(params[i])]

\* line 313 and 324: notFoundHandler.call(request)
NotFoundCall(st, nf) == Invoke(st, nf, Len(st.requests), <<>>)

\* mutant: returns without calling the not-found handler
NotFoundSilent(st, nf) == st

\* line 333: notFoundHandler(path)
NotFoundPlain(st, nf) ==
  Invoke(st, nf, NoThis, <<Arr(st.requests[Len(st.requests)].path)>>)

\* mutant: the root handler applied to the path
RootCallWithPath(st, h) ==
  Invoke(st, GetProp(h, "_").fn, Len(st.requests),
         [i \in 1..Len(st.requests[Len(st.requests)].path) |->
            Str(st.requests[Len(st.requests)].path[i])])

\* line 322: handlers._.apply(request)
RootCall(st, h) == Invoke(st, GetProp(h, "_").fn, Len(st.requests), <<>>)

\* line 338: handlers[request.route].apply(request, request.params)
RouteCall(st, entry) ==
  LET request == st.requests[Len(st.requests)]
  IN Invoke(st, entry.fn, Len(st.requests), ApplyArgs(request.params))

\* mutant: every entry that is no function is recursed into
IsObjectUntested(entry) == TRUE

\* line 341: typeof handlers[request.route] === 'object'
IsObject(entry) == entry.kind = "object"

RECURSIVE handleRoute(_, _, _, _)
handleRoute(path, h, nf, st) ==
  LET s1 == Record(path, st)
  IN IF ~h.truthy THEN NotFoundCall(s1, nf)
     ELSE IF IsRootPath(path) THEN
       IF GetProp(h, "_").kind = "function"
         THEN RootCall(s1, h)
         ELSE NotFoundCall(s1, nf)
     ELSE
       LET s2 == Shift(s1)
           request == s2.requests[Len(s2.requests)]
           entry == GetProp(h, request.route)
       IN IF ~entry.truthy THEN NotFoundPlain(s2, nf)
          ELSE IF entry.kind = "function" THEN RouteCall(s2, entry)
          ELSE IF IsObject(entry)
            THEN handleRoute(request.params, entry, nf, s2)
          ELSE [s2 EXCEPT !.err = "Error"]

----------------------------------------------------------------------------
(* Operations *)

NoNav == [method |-> "none", to |-> <<>>]

\* the state a dispatch cycle leaves
Dispatched(name, r) ==
  /\ history' = r.history
  /\ historyPosition' = r.historyPosition
  /\ requests' = r.requests
  /\ calls' = r.calls
  /\ err' = r.err
  /\ op' = name
  /\ nav' = NoNav

\* an operation that threw `e` (or returned, "none") before any effect
Returned(name, e) ==
  /\ op' = name
  /\ err' = e
  /\ requests' = <<>>
  /\ calls' = <<>>
  /\ nav' = NoNav

\* mutant: the handler assigned before its type is tested
SetNotFoundUnchecked(v) == v.fn

\* the handler setNotFoundHandler(v) leaves registered
SetNotFound(v) == IF v.kind = "function" THEN v.fn ELSE notFoundHandler

\* frag.setNotFoundHandler(handler)
SetNotFoundHandler(v) ==
  /\ notFoundHandler' = SetNotFound(v)
  /\ Returned("setNotFoundHandler", IF v.kind = "function" THEN "none" ELSE "Error")
  /\ UNCHANGED <<history, historyPosition, isRouting, onhashchange, handlers,
                 hash, pending, kept>>

\* mutant: the `404` entry is registered but left in the table
StartTableKept(h) == h

\* the table start() leaves to the listener: its `404` entry is deleted when
\* it is a function
StartTable(h) ==
  IF GetProp(h, "404").kind = "function" THEN DeleteProp(h, "404") ELSE h

\* frag.start(handlers)
Start(h) ==
  /\ Len(history) < MaxHistory
  /\ UNCHANGED kept
  /\ IF isRouting THEN
       /\ Returned("start", "none")
       /\ UNCHANGED <<history, historyPosition, notFoundHandler, isRouting,
                      onhashchange, handlers, hash, pending>>
     ELSE IF ~h.truthy /\ h.kind \in {"object", "undefined"} THEN
       \* handlers['404'] of null or undefined
       /\ Returned("start", "TypeError")
       /\ UNCHANGED <<history, historyPosition, notFoundHandler, isRouting,
                      onhashchange, handlers, hash, pending>>
     ELSE
       LET nf == SetNotFound(GetProp(h, "404"))
           t == StartTable(h)
       IN /\ notFoundHandler' = nf
          /\ onhashchange' = TRUE
          /\ handlers' = t
          /\ Dispatched("start", handleRoute(extractPath(UndefinedArr), t, nf, Cycle))
          /\ UNCHANGED <<isRouting, hash, pending>>

\* the host delivers one hashchange event to window.onhashchange
HashChange ==
  /\ pending > 0
  /\ pending' = pending - 1
  /\ IF onhashchange
       THEN /\ Len(history) < MaxHistory
            /\ Dispatched("hashchange",
                 handleRoute(extractPath(UndefinedArr), handlers, notFoundHandler, Cycle))
       ELSE /\ Returned("hashchange", "none")
            /\ UNCHANGED <<history, historyPosition>>
  /\ UNCHANGED <<notFoundHandler, isRouting, onhashchange, handlers, hash, kept>>

\* the host moves to fragment f: it queues a hashchange event if the
\* fragment changes
Location(method, f) ==
  /\ hash' = f
  /\ pending' = IF f = hash THEN pending ELSE pending + 1
  /\ nav' = [method |-> method, to |-> f]

\* the user follows a link or edits the address
Navigate(f) ==
  /\ pending < MaxPending
  /\ Location("user", f)
  /\ op' = "navigate" /\ err' = "none" /\ requests' = <<>> /\ calls' = <<>>
  /\ UNCHANGED <<history, historyPosition, notFoundHandler, isRouting,
                 onhashchange, handlers, kept>>

\* the properties of the module object `frag`
FragApi == {"isRouting", "setNotFoundHandler", "start"}

\* what the application passes to frag.addMiddleware
MiddlewareInputs == {Fn("auth")}

\* frag.addMiddleware(f): the module object has no such property, so the
\* call is a TypeError and nothing is registered
AddMiddleware(f) ==
  /\ "addMiddleware" \notin FragApi
  /\ Returned("addMiddleware", "TypeError")
  /\ UNCHANGED <<history, historyPosition, notFoundHandler, isRouting,
                 onhashchange, handlers, hash, pending, kept>>

\* Request.prototype.back: the guard reads `historyPositon`, which nothing
\* declares, so evaluating it throws before lines 234-236 run
back ==
  IF "historyPositon" \notin ModuleScope
    THEN /\ Returned("back", "ReferenceError")
         /\ UNCHANGED <<historyPosition, hash, pending>>
    ELSE /\ Returned("back", "none")
         /\ UNCHANGED <<historyPosition, hash, pending>>

\* Request.prototype.forwared
forwared ==
  IF historyPosition + 1 = Len(history)
    THEN /\ Returned("forwared", "none")
         /\ UNCHANGED <<historyPosition, hash, pending>>
    ELSE /\ pending < MaxPending
         /\ Location("replace", history[historyPosition + 2])
         /\ historyPosition' = historyPosition + 1
         /\ op' = "forwared" /\ err' = "none"
         /\ requests' = <<>> /\ calls' = <<>>

\* Array.prototype.join('/')
RECURSIVE Join(_)
Join(a) ==
  IF a = <<>> THEN <<>>
  ELSE IF Len(a) = 1 THEN <<Head(a)>>
  ELSE <<Head(a), "/">> \o Join(Tail(a))

\* the fragment go() sends the host to: location + '/' + params.join('/')
GoTarget(location, params) == location \o <<"/">> \o Join(params)

\* Request.prototype.go(location, params, hide)
Go(g) ==
  LET hide == IF g.params.array THEN g.hide ELSE g.params.truthy
      params == IF g.params.array THEN g.params.v ELSE <<>>
  IN /\ history # <<>>
     /\ pending < MaxPending
     /\ Location(IF hide THEN "replace" ELSE "assign",
                 GoTarget(g.location, params))
     /\ op' = "go" /\ err' = "none" /\ requests' = <<>> /\ calls' = <<>>
     /\ UNCHANGED <<history, historyPosition, notFoundHandler, isRouting,
                    onhashchange, handlers, kept>>

\* request[name](): a handler, or code that kept the Request, calls a
\* method of the request context
CallMethod(name) ==
  /\ history # <<>>
  /\ IF name \notin RequestPrototype
       THEN \* request[name] is undefined: calling it is a TypeError
            /\ Returned(name, "TypeError")
            /\ UNCHANGED <<historyPosition, hash, pending>>
       ELSE CASE name = "back" -> back
              [] name = "forwared" -> forwared
              [] OTHER -> FALSE
  /\ UNCHANGED <<history, notFoundHandler, isRouting, onhashchange, handlers,
                 kept>>

\* no Request kept
NoKept == [set |-> FALSE, alias |-> FALSE, val |-> <<>>]

\* what reading the kept Request's history yields
View(k) == IF k.alias THEN history ELSE k.val

\* a handler keeps its Request (`this`) for later
KeepRequest ==
  /\ requests # <<>>
  /\ ~kept.set
  /\ kept' = [set |-> TRUE,
              alias |-> requests[Len(requests)].history.alias,
              val |-> requests[Len(requests)].history.val]
  /\ op' = "keep" /\ err' = "none" /\ nav' = NoNav
  /\ UNCHANGED <<history, historyPosition, notFoundHandler, isRouting,
                 onhashchange, handlers, hash, pending, requests, calls>>

\* the application empties the history of the Request it kept
\* (request.history.length = 0)
ClearKept ==
  /\ kept.set
  /\ View(kept) # <<>>
  /\ IF kept.alias
       THEN history' = <<>> /\ kept' = kept
       ELSE history' = history /\ kept' = [kept EXCEPT !.val = <<>>]
  /\ op' = "mutate" /\ err' = "none" /\ nav' = NoNav
  /\ requests' = <<>> /\ calls' = <<>>
  /\ UNCHANGED <<historyPosition, notFoundHandler, isRouting, onhashchange,
                 handlers, hash, pending>>

Back == CallMethod("back")
Forward == CallMethod("forward")
Forwared == CallMethod("forwared")

Init ==
  /\ history = <<>>
  /\ historyPosition = 0
  /\ notFoundHandler = "notFoundHandler"
  /\ isRouting = FALSE
  /\ onhashchange = FALSE
  /\ handlers = UndefVal
  /\ hash \in Fragments
  /\ pending = 0
  /\ op = "init"
  /\ err = "none"
  /\ requests = <<>>
  /\ calls = <<>>
  /\ nav = NoNav
  /\ kept = NoKept

Next ==
  \/ \E h \in StartInputs : Start(h)
  \/ \E v \in NotFoundInputs : SetNotFoundHandler(v)
  \/ \E f \in Fragments : Navigate(f)
  \/ HashChange
  \/ Back
  \/ Forward
  \/ Forwared
  \/ \E g \in GoInputs : Go(g)
  \/ \E f \in MiddlewareInputs : AddMiddleware(f)

Spec == Init /\ [][Next]_vars

\* the router with an application that keeps a Request and changes its
\* history
NextSnapshot ==
  \/ \E h \in StartInputs : Start(h)
  \/ \E f \in Fragments : Navigate(f)
  \/ HashChange
  \/ KeepRequest
  \/ ClearKept

SpecSnapshot == Init /\ [][NextSnapshot]_vars

----------------------------------------------------------------------------
(* What the claims speak of *)

IsTable(v) == v.kind = "object" /\ v.truthy

\* the segments of the fragment the last cycle dispatched
Segments == Split(hash)

\* a dispatch cycle ran in the operation that led here
DispatchRan == op \in {"start", "hashchange"} /\ requests # <<>>

\* the entry reached from table t under segments segs[1..k]
RECURSIVE EntryAt(_, _, _)
EntryAt(t, segs, k) ==
  IF k = 0 THEN t ELSE GetProp(EntryAt(t, segs, k - 1), segs[k])

\* segs[1..k] walk through nested tables, starting in table t
WalksTables(t, segs, k) == \A i \in 0..k : IsTable(EntryAt(t, segs, i))

\* the depths k at which segs reach a function entry under segs[k]
LeafDepths(t, segs) ==
  {k \in 1..Len(segs) :
     /\ WalksTables(t, segs, k - 1)
     /\ EntryAt(t, segs, k).kind = "function"}

\* the depths k at which resolution stands at the root position of the
\* table reached under segs[1..k]
RootDepths(t, segs) ==
  {k \in 0..Len(segs) :
     /\ WalksTables(t, segs, k)
     /\ (k = Len(segs) \/ segs[k + 1] = "")}

\* the depths k at which the table reached under segs[1..k] has no entry
\* under the next, non-empty segment
MissDepths(t, segs) ==
  {k \in 0..(Len(segs) - 1) :
     /\ WalksTables(t, segs, k)
     /\ segs[k + 1] # ""
     /\ segs[k + 1] \notin DOMAIN EntryAt(t, segs, k).sub}

SegsFrom(segs, k) == [i \in 1..(Len(segs) - k) |-> segs[k + i]]

----------------------------------------------------------------------------
(* C1 *)

\* C1: a fragment whose segments walk through nested tables to a function
\* entry under s_k makes the dispatch cycle invoke that function exactly
\* once, with the positional arguments s_(k+1)..s_n in order, and nothing
\* else: no other route handler, not the not-found handler.
C1_LeafInvokedOnceWithRest ==
  DispatchRan =>
    \A k \in LeafDepths(handlers, Segments) :
      /\ Len(calls) = 1
      /\ calls[1].fn = EntryAt(handlers, Segments, k).fn
      /\ calls[1].args = [i \in 1..(Len(Segments) - k) |-> Str(Segments[k + i])]
      /\ err = "none"

C1_Witness ==
  /\ DispatchRan
  /\ Segments = <<"clients", "modify", "all">>
  /\ 2 \in LeafDepths(handlers, Segments)
  /\ calls = <<[fn |-> "clientsModify", this |-> 2, args |-> <<Str("all")>>]>>

----------------------------------------------------------------------------
(* C2 *)

----------------------------------------------------------------------------
(* C3 *)

\* the last cycle ended not-found: absent table, root without a callable
\* `_`, or no entry under the first segment of the table reached
NotFoundOutcome ==
  \/ ~handlers.truthy
  \/ MissDepths(handlers, Segments) # {}
  \/ \E k \in RootDepths(handlers, Segments) :
       GetProp(EntryAt(handlers, Segments, k), "_").kind # "function"

\* C3: on every not-found outcome the not-found handler is invoked with the
\* request context of the cycle as its `this`, as route handlers are.
C3_NotFoundThisIsRequest ==
  (DispatchRan /\ NotFoundOutcome) =>
    /\ calls # <<>>
    /\ calls[1].this \in 1..Len(requests)

----------------------------------------------------------------------------
(* C4 *)

\* C4: when the first segment matches no entry of the top-level table, the
\* not-found handler receives one argument, the string of the route that
\* failed to match (fragment "missing": the string "missing").
C4_NotFoundGetsRouteString ==
  (DispatchRan /\ 0 \in MissDepths(handlers, Segments)) =>
    /\ Len(calls) = 1
    /\ Len(calls[1].args) = 1
    /\ calls[1].args[1].type = "string"
    /\ Len(Segments) = 1 => calls[1].args[1] = Str(Segments[1])

----------------------------------------------------------------------------
(* C5 *)

\* C5: the request context handed as `this` to a matched leaf registered
\* under s_k has route = s_k and parameters = [s_(k+1),...,s_n], the
\* handler's positional arguments.
C5_ContextRouteAndParameters ==
  DispatchRan =>
    \A k \in LeafDepths(handlers, Segments) :
      /\ Len(calls) = 1
      /\ calls[1].this \in 1..Len(requests)
      /\ requests[calls[1].this].route = Segments[k]
      /\ requests[calls[1].this].parameters = SegsFrom(Segments, k)

----------------------------------------------------------------------------
(* C6 *)

\* C6: a root position (no segment left, or the next segment empty) at a
\* table with a callable `_` invokes that `_` handler with zero positional
\* arguments, at the top level and at every nested table.
C6_RootHandlerNoArguments ==
  DispatchRan =>
    \A k \in RootDepths(handlers, Segments) :
      GetProp(EntryAt(handlers, Segments, k), "_").kind = "function"
        => /\ Len(calls) = 1
           /\ calls[1].fn = GetProp(EntryAt(handlers, Segments, k), "_").fn
           /\ calls[1].args = <<>>

\* fragment "" at the top level, and fragment "clients" at the nested table
C6_Witness ==
  /\ DispatchRan
  /\ Len(history) > 2
  /\ history[1] = <<>>
  /\ Segments = <<"clients">>
  /\ calls = <<[fn |-> "clientsDefault", this |-> 2, args |-> <<>>]>>

----------------------------------------------------------------------------
(* C7 *)

\* C7: start is one-shot: once a call of start has returned, isRouting is
\* true and a later call of start dispatches nothing, appends nothing to
\* history, and replaces neither the not-found handler nor the listener's
\* table.
C7_StartIsOneShot ==
  [][(op = "start" /\ err = "none") =>
       /\ isRouting
       /\ op' = "start" =>
            /\ history' = history
            /\ calls' = <<>>
            /\ notFoundHandler' = notFoundHandler
            /\ handlers' = handlers]_vars

----------------------------------------------------------------------------
(* C8 *)

\* C8: back() while the cursor is 0 is a no-op: it raises no error, issues
\* no host navigation and leaves history and cursor unchanged.
C8_BackAtZeroIsNoOp ==
  [][(historyPosition = 0 /\ op' = "back") =>
       /\ err' = "none"
       /\ nav' = NoNav
       /\ history' = history
       /\ historyPosition' = historyPosition]_vars

----------------------------------------------------------------------------
(* C9 *)

\* C9: the request context has a method forward(): at the last history
\* index it is a no-op (no error, no navigation, history and cursor
\* unchanged), otherwise it sends the host to the entry at cursor+1 and
\* increments the cursor.
C9_ForwardSteps ==
  [][op' = "forward" =>
       /\ err' = "none"
       /\ history' = history
       /\ IF historyPosition + 1 = Len(history)
            THEN nav' = NoNav /\ historyPosition' = historyPosition
            ELSE /\ nav' = [method |-> "replace", to |-> history[historyPosition + 2]]
                 /\ historyPosition' = historyPosition + 1]_vars

----------------------------------------------------------------------------
(* C10 *)

\* C10: setNotFoundHandler(v) with a non-function v fails with a
\* configuration error and leaves the registered not-found handler in
\* place; the next unmatched dispatch invokes that handler.
C10_NonFunctionRejected ==
  [][/\ \A v \in NotFoundInputs :
          (v.kind # "function" /\ SetNotFoundHandler(v))
            => err' = "Error" /\ notFoundHandler' = notFoundHandler
     /\ (op = "setNotFoundHandler" /\ err = "Error" /\ op' = "hashchange"
         /\ requests' # <<>> /\ MissDepths(handlers', Split(hash')) # {})
          => Len(calls') = 1 /\ calls'[1].fn = notFoundHandler]_vars

\* a failed setNotFoundHandler with a custom handler registered and an
\* unmatched fragment waiting to be dispatched
C10_Witness ==
  /\ op = "setNotFoundHandler" /\ err = "Error"
  /\ notFoundHandler = "custom"
  /\ onhashchange /\ pending > 0
  /\ MissDepths(handlers, Segments) # {}

----------------------------------------------------------------------------
(* C11 *)

\* the parameters a call of go() passes: none when the second argument is
\* no array
GoParams(g) == IF g.params.array THEN g.params.v ELSE <<>>

\* C11: go(location, params) sends the host to `location` followed by the
\* '/'-joined params; with params omitted or empty the target is exactly
\* `location`, so the dispatch that go(location) triggers invokes the
\* handler for `location` with zero positional arguments.
C11_GoTargetsLocation ==
  [][/\ \A g \in GoInputs :
          Go(g) =>
            /\ nav'.to = IF GoParams(g) = <<>>
                           THEN g.location
                           ELSE g.location \o <<"/">> \o Join(GoParams(g))
            /\ hash' = nav'.to
     /\ (/\ op = "go"
         /\ \E g \in GoInputs :
              GoParams(g) = <<>> /\ Split(g.location) = <<Split(hash)[1]>>
         /\ Len(Split(hash)) <= 2
         /\ op' = "hashchange" /\ requests' # <<>>
         /\ 1 \in LeafDepths(handlers', Split(hash')))
          => Len(calls') = 1 /\ calls'[1].args = <<>>]_vars

----------------------------------------------------------------------------
(* C12 *)

\* the depths k at which resolution finds, under the segment segs[k], an
\* entry of the table reached that is neither callable nor a table
BadEntryDepths(t, segs) ==
  {k \in 1..Len(segs) :
     /\ WalksTables(t, segs, k - 1)
     /\ \A i \in 1..k : segs[i] # ""
     /\ segs[k] \in DOMAIN EntryAt(t, segs, k - 1).sub
     /\ EntryAt(t, segs, k).kind # "function"
     /\ ~IsTable(EntryAt(t, segs, k))}

----------------------------------------------------------------------------
(* C13 *)

\* the depths k at which the table reached under segs[1..k] is asked for
\* the segment "404"
Depths404(t, segs) ==
  {k \in 0..(Len(segs) - 1) :
     /\ WalksTables(t, segs, k)
     /\ \A i \in 1..k : segs[i] # ""
     /\ segs[k + 1] = "404"}

Without404(h) ==
  [h EXCEPT !.sub = [key \in (DOMAIN h.sub) \ {"404"} |-> h.sub[key]]]

----------------------------------------------------------------------------
(* C14 *)

\* C14: middleware registered with addMiddleware runs in every dispatch
\* cycle, in registration order and before the handler.  For one
\* registered function: addMiddleware(f) registers f, and the dispatch
\* cycle after it invokes f first and the handler after it.
C14_MiddlewareRunsBeforeHandler ==
  [][/\ \A f \in MiddlewareInputs :
          AddMiddleware(f) => err' = "none"
     /\ (/\ op = "addMiddleware"
         /\ op' \in {"start", "hashchange"} /\ requests' # <<>>)
          => /\ Len(calls') = 2
             /\ \E f \in MiddlewareInputs : calls'[1].fn = f.fn]_vars

----------------------------------------------------------------------------
(* C15 *)

\* C15: each dispatch cycle appends exactly one entry to history, the
\* fragment that triggered it, however many nested tables resolution
\* descends through, and leaves the cursor on it.
C15_OneEntryPerCycle ==
  [][(op' \in {"start", "hashchange"} /\ requests' # <<>>) =>
       /\ history' = Append(history, hash')
       /\ historyPosition' = Len(history') - 1]_vars

----------------------------------------------------------------------------
(* C16 *)

\* C16: back() and forward() re-visit and do not record: back() above
\* cursor 0 sends the host to the entry before the cursor and moves the
\* cursor there, and once the host has delivered the fragment change that
\* a back() or forward() caused, history is as long as before and the
\* cursor is where the call left it.
C16_BackForwardDoNotRecord ==
  [][/\ (op' = "back" /\ historyPosition > 0) =>
          /\ err' = "none"
          /\ nav' = [method |-> "replace", to |-> history[historyPosition]]
          /\ historyPosition' = historyPosition - 1
          /\ history' = history
     /\ (/\ op \in {"back", "forward", "forwared"}
         /\ nav.method = "replace"
         /\ op' = "hashchange")
          => /\ Len(history') = Len(history)
             /\ historyPosition' = historyPosition]_vars

----------------------------------------------------------------------------
(* C17 *)

\* C17: whenever history is not empty, the cursor is a valid index of it:
\* 0 <= cursor <= length - 1.
C17_CursorInBounds ==
  history # <<>> =>
    /\ historyPosition >= 0
    /\ historyPosition <= Len(history) - 1

\* a nested dispatch and a second cycle behind it, then a call of
\* forwared() at the last index
C17_Witness ==
  /\ op = "forwared"
  /\ Len(history) >= 3
  /\ historyPosition = Len(history) - 1

----------------------------------------------------------------------------
(* C18 *)

IsPrefix(a, b) ==
  /\ Len(a) <= Len(b)
  /\ \A i \in 1..Len(a) : a[i] = b[i]

\* C18: history is append-only: after every operation the history before
\* it is a prefix of the history after it.
C18_HistoryAppendOnly ==
  [][IsPrefix(history, history')]_vars

\* a second cycle has appended behind the entries of the first
C18_Witness ==
  /\ DispatchRan
  /\ Len(history) >= 2
  /\ history[1] # history[Len(history)]

----------------------------------------------------------------------------
(* C19 *)

\* C19: the history of a request context is a snapshot taken when the
\* context is constructed, with the entry of its own cycle in it; later
\* dispatch cycles do not change what a kept context shows, and changing a
\* kept context's history changes neither the live history nor the cursor.
C19_HistoryIsSnapshot ==
  [][/\ (op' \in {"start", "hashchange"} /\ requests' # <<>>) =>
          /\ View(requests[Len(requests)].history)' = history'
          /\ kept.set => View(kept)' = View(kept)
     /\ op' = "mutate" =>
          /\ View(kept)' = <<>>
          /\ history' = history
          /\ historyPosition' = historyPosition]_vars

\* a kept context still shows the history of its cycle after a later cycle
\* has appended to the live history
C19_Witness ==
  /\ DispatchRan
  /\ kept.set
  /\ View(kept) # <<>>
  /\ Len(history) > Len(View(kept))

----------------------------------------------------------------------------
(* C20 *)

\* C20: resolution changes only route and parameters of the request
\* context: for a top-level route the path a handler observes is the
\* segment sequence the context was constructed with, route name included.
C20_PathKeepsRouteName ==
  (DispatchRan /\ 1 \in LeafDepths(handlers, Segments)) =>
    /\ Len(calls) = 1
    /\ calls[1].this \in 1..Len(requests)
    /\ requests[calls[1].this].path = Segments

====
